---- MODULE Spec2Model ----
(***************************************************************************)
(* A model of arxiv-api-rs: the predicate algebra (search_query.rs), the   *)
(* query descriptor (query.rs), the entry mapper (models.rs) and the       *)
(* retrying search of ArxivClient (lib.rs).                                *)
(*                                                                         *)
(* Strings are sequences of one-character strings, so that format!, join   *)
(* and slicing are computed character by character.                        *)
(***************************************************************************)
EXTENDS Integers, Sequences, FiniteSets, TLC

VARIABLES
    \* search_query.rs: the expression under construction and its two renderings
    pred, lastOp, query_string, display,
    \* query.rs: the descriptor, the last builder step and the parameter map
    query, lastStep, params,
    \* models.rs: the decoded entry, the mapped record, warnings on stderr
    entry, record, stderr,
    \* lib.rs: the client's fields and the position of one search call
    interval, n_retries, pc, attempt, errors, text, outcome,
    sleeps, wake, now, attempts, calls

predVars  == <<pred, lastOp, query_string, display>>
queryVars == <<query, lastStep, params>>
entryVars == <<entry, record, stderr>>
fetchVars == <<interval, n_retries, pc, attempt, errors, text, outcome,
               sleeps, wake, now, attempts, calls>>
vars == <<predVars, queryVars, entryVars, fetchVars>>

----------------------------------------------------------------------------
(* Bounds *)

MaxDepth == 2        \* composition steps applied to a predicate
MaxSteps == 3        \* builder steps applied to a descriptor
MaxValue == 12       \* largest start / max_results argument drawn
MaxStart == 40       \* next_page_query is not taken beyond this start
MaxLinks == 3        \* links of an entry
MaxRetries == 3      \* largest n_retries drawn
MaxInterval == 2     \* largest interval drawn (clock ticks)
MaxTime == 6         \* the clock stops here
MaxCalls == 2        \* search calls on one client

----------------------------------------------------------------------------
(* Strings *)

None == [some |-> FALSE]
Some(v) == [some |-> TRUE, v |-> v]

RECURSIVE join(_, _)
\* [String]::join(sep)
join(strs, sep) ==
    IF Len(strs) = 0 THEN <<>>
    ELSE IF Len(strs) = 1 THEN strs[1]
    ELSE strs[1] \o sep \o join(Tail(strs), sep)

Digit(d) == <<"0", "1", "2", "3", "4", "5", "6", "7", "8", "9">>[d + 1]

RECURSIVE usize_to_string(_)
\* <usize as ToString>::to_string: decimal, no sign, no leading zero
usize_to_string(n) ==
    IF n < 10 THEN <<Digit(n)>>
    ELSE usize_to_string(n \div 10) \o <<Digit(n % 10)>>

\* zero-padded two-digit field of a timestamp
Pad2(n) == <<Digit(n \div 10), Digit(n % 10)>>

----------------------------------------------------------------------------
(* search_query.rs *)

RECURSIVE remove_every_outside_bracket(_)
\* the stripping repeated while the string is still enclosed
remove_every_outside_bracket(s) ==
    IF Len(s) > 0 /\ s[1] = "(" /\ s[Len(s)] = ")"
    THEN remove_every_outside_bracket(SubSeq(s, 2, Len(s) - 1))
    ELSE s

\* fn remove_outside_brackets(s: &str)
remove_outside_brackets(s) ==
    IF Len(s) > 0 /\ s[1] = "(" /\ s[Len(s)] = ")"
    THEN SubSeq(s, 2, Len(s) - 1)
    ELSE s

\* impl AsRef<str> for RangeField
RangeField_as_ref(f) ==
    CASE f = "LastUpdatedDate" -> <<"l", "a", "s", "t", "U", "p", "d", "a", "t", "e", "d", "D", "a", "t", "e">>
      [] f = "SubmittedDate" -> <<"s", "u", "b", "m", "i", "t", "t", "e", "d", "D", "a", "t", "e">>

\* impl AsRef<str> for SearchField
SearchField_as_ref(f) ==
    CASE f = "Title" -> <<"t", "i">>
      [] f = "Author" -> <<"a", "u">>
      [] f = "Abstract" -> <<"a", "b", "s">>
      [] f = "Comment" -> <<"c", "o">>
      [] f = "JournalReference" -> <<"j", "r">>
      [] f = "SubjectCategory" -> <<"c", "a", "t">>
      [] f = "ReportNumber" -> <<"r", "n">>
      [] f = "Doi" -> <<"d", "o", "i">>
      [] f = "All" -> <<"a", "l", "l">>

\* days before each month of a common year (1970 is one)
DaysBefore == <<0, 31, 59, 90, 120, 151, 181, 212, 243, 273, 304, 334, 365>>

MonthOf(yday) == CHOOSE m \in 1..12 : DaysBefore[m] <= yday /\ yday < DaysBefore[m + 1]

\* OffsetDateTime::format(&Iso8601::DEFAULT) of a UTC instant given as
\* seconds since the epoch, for instants of the year 1970
Iso8601(t) ==
    LET yday == t \div 86400
        sec  == t % 86400
        m    == MonthOf(yday)
    IN  <<"1", "9", "7", "0">> \o <<"-">> \o Pad2(m) \o <<"-">> \o Pad2(yday - DaysBefore[m] + 1)
        \o <<"T">> \o Pad2(sec \div 3600) \o <<":">> \o Pad2((sec % 3600) \div 60)
        \o <<":">> \o Pad2(sec % 60) \o <<".", "0", "0", "0", "0", "0", "0", "0", "0", "0", "Z">>

\* impl ISearchQuery for SearchRange
SearchRange_to_query_string(r) ==
    RangeField_as_ref(r.field) \o <<":", "[">> \o Iso8601(r.start)
        \o <<" ", "T", "O", " ">> \o Iso8601(r.end) \o <<"]">>

\* impl ISearchQuery for SearchTerm
SearchTerm_to_query_string(t) ==
    SearchField_as_ref(t.field) \o <<":">> \o t.term

\* the wrapping skipped for a string that is already enclosed
bracket_format_once(q) ==
    IF Len(q) > 0 /\ q[1] = "(" /\ q[Len(q)] = ")" THEN q ELSE <<"(">> \o q \o <<")">>

\* fn bracket_format(query: &str)
bracket_format(q) == <<"(">> \o q \o <<")">>

\* SearchTerm::new, SearchRange::new
SearchTerm(field, term) == [tag |-> "Term", field |-> field, term |-> term]
SearchRange(field, start, end) ==
    [tag |-> "Range", field |-> field, start |-> start, end |-> end]

\* impl SearchPredicate: the constructors
and(lhs, rhs) == [tag |-> "And", predicates |-> <<lhs, rhs>>]
and_all(predicates) == [tag |-> "And", predicates |-> predicates]
or(lhs, rhs) == [tag |-> "Or", predicates |-> <<lhs, rhs>>]
or_all(predicates) == [tag |-> "Or", predicates |-> predicates]
and_not(lhs, rhs) == [tag |-> "AndNot", lhs |-> lhs, rhs |-> rhs]
bracket(predicate) == [tag |-> "Bracket", inner |-> predicate]

RECURSIVE to_query_string(_)
\* dyn ISearchQuery::to_query_string, dispatched on the node
to_query_string(p) ==
    CASE p.tag = "Term" -> SearchTerm_to_query_string(p)
      [] p.tag = "Range" -> SearchRange_to_query_string(p)
      [] p.tag = "And" ->
            bracket_format(join([i \in 1..Len(p.predicates) |->
                                    to_query_string(p.predicates[i])], <<" ", "A", "N", "D", " ">>))
      [] p.tag = "Or" ->
            bracket_format(join([i \in 1..Len(p.predicates) |->
                                    to_query_string(p.predicates[i])], <<" ", "O", "R", " ">>))
      [] p.tag = "AndNot" ->
            <<"(">> \o to_query_string(p.lhs) \o <<" ", "A", "N", "D", "N", "O", "T", " ">>
                \o to_query_string(p.rhs) \o <<")">>
      [] p.tag = "Bracket" ->
            <<"(">> \o to_query_string(p.inner) \o <<")">>

\* impl Display for SearchTerm / SearchRange / SearchPredicate
to_string(p) ==
    IF p.tag \in {"Term", "Range"}
    THEN to_query_string(p)
    ELSE remove_outside_brackets(to_query_string(p))

----------------------------------------------------------------------------
(* query.rs *)

\* a raw &str given as the search query
Str(s) == [tag |-> "Str", s |-> s]

\* <S as ToString>::to_string: a &str is copied, a predicate is displayed
S_to_string(x) == IF x.tag = "Str" THEN x.s ELSE to_string(x)

\* impl Default for ArxivQuery
ArxivQuery_default ==
    [search_query |-> None, id_list |-> <<>>, start |-> 0, max_results |-> 10,
     sort_by |-> None, sort_order |-> None]

with_search_query(self, search_query) ==
    [self EXCEPT !.search_query = Some(search_query)]

with_id_list(self, id_list) == [self EXCEPT !.id_list = id_list]

with_start(self, start) == [self EXCEPT !.start = start]

with_max_results(self, max_results) == [self EXCEPT !.max_results = max_results]

with_sort_by(self, sort_by) == [self EXCEPT !.sort_by = Some(sort_by)]

\* the start advanced by one instead of by a page
next_page_query_by_one(self) == [self EXCEPT !.start = self.start + 1]

\* self.start += self.max_results
next_page_query(self) == [self EXCEPT !.start = self.start + self.max_results]

\* HashMap::new and HashMap::insert
HashMap_new == [k \in {} |-> <<>>]
insert(m, key, value) ==
    [k \in DOMAIN m \cup {key} |-> IF k = key THEN value ELSE m[k]]

\* query_map without the is_empty test on the id list
query_map_id_list_always(self) ==
    LET m0 == HashMap_new
        m1 == IF self.search_query.some
              THEN insert(m0, "search_query", S_to_string(self.search_query.v))
              ELSE m0
        m2 == IF TRUE
              THEN insert(m1, "id_list", join(self.id_list, <<",">>))
              ELSE m1
        m3 == insert(m2, "start", usize_to_string(self.start))
        m4 == insert(m3, "max_results", usize_to_string(self.max_results))
        m5 == IF self.sort_by.some
              THEN insert(m4, "sortBy",
                     CASE self.sort_by.v = "Relevance" -> <<"r", "e", "l", "e", "v", "a", "n", "c", "e">>
                       [] self.sort_by.v = "LastUpdatedDate" -> <<"l", "a", "s", "t", "U", "p", "d", "a", "t", "e", "d", "D", "a", "t", "e">>
                       [] self.sort_by.v = "SubmittedDate" -> <<"s", "u", "b", "m", "i", "t", "t", "e", "d", "D", "a", "t", "e">>)
              ELSE m4
        m6 == IF self.sort_order.some
              THEN insert(m5, "sortOrder",
                     CASE self.sort_order.v = "Ascending" -> <<"a", "s", "c", "e", "n", "d", "i", "n", "g">>
                       [] self.sort_order.v = "Descending" -> <<"d", "e", "s", "c", "e", "n", "d", "i", "n", "g">>)
              ELSE m5
    IN  m6

\* ArxivQuery::query_map
query_map(self) ==
    LET m0 == HashMap_new
        m1 == IF self.search_query.some
              THEN insert(m0, "search_query", S_to_string(self.search_query.v))
              ELSE m0
        m2 == IF Len(self.id_list) # 0
              THEN insert(m1, "id_list", join(self.id_list, <<",">>))
              ELSE m1
        m3 == insert(m2, "start", usize_to_string(self.start))
        m4 == insert(m3, "max_results", usize_to_string(self.max_results))
        m5 == IF self.sort_by.some
              THEN insert(m4, "sortBy",
                     CASE self.sort_by.v = "Relevance" -> <<"r", "e", "l", "e", "v", "a", "n", "c", "e">>
                       [] self.sort_by.v = "LastUpdatedDate" -> <<"l", "a", "s", "t", "U", "p", "d", "a", "t", "e", "d", "D", "a", "t", "e">>
                       [] self.sort_by.v = "SubmittedDate" -> <<"s", "u", "b", "m", "i", "t", "t", "e", "d", "D", "a", "t", "e">>)
              ELSE m4
        m6 == IF self.sort_order.some
              THEN insert(m5, "sortOrder",
                     CASE self.sort_order.v = "Ascending" -> <<"a", "s", "c", "e", "n", "d", "i", "n", "g">>
                       [] self.sort_order.v = "Descending" -> <<"d", "e", "s", "c", "e", "n", "d", "i", "n", "g">>)
              ELSE m5
    IN  m6

----------------------------------------------------------------------------
(* models.rs *)

PDF == <<"p", "d", "f">>

\* get_pdf_url keeping the last matching link
get_pdf_url_last(self) ==
    LET pdf_links == SelectSeq(self.links, LAMBDA link : link.title = Some(<<"p", "d", "f">>))
        ret == IF Len(pdf_links) >= 1 THEN Some(pdf_links[Len(pdf_links)].href) ELSE None
    IN  [ret |-> ret,
         eprintln |-> IF Len(pdf_links) >= 2
                      THEN <<<<"M", "u", "l", "t", "i", "p", "l", "e", " ", "p", "d", "f", " ", "l", "i", "n", "k", "s", " ", "f", "o", "u", "n", "d", " ", "f", "o", "r", " ", "e", "n", "t", "r", "y", ":", " ">> \o self.id>>
                      ELSE <<>>]

\* Entry::get_pdf_url: the returned value and the lines written by eprintln!
get_pdf_url(self) ==
    LET pdf_links == SelectSeq(self.links, LAMBDA link : link.title = Some(PDF))
        ret == IF Len(pdf_links) >= 1 THEN Some(pdf_links[1].href) ELSE None
    IN  [ret |-> ret,
         eprintln |-> IF Len(pdf_links) >= 2
                      THEN <<<<"M", "u", "l", "t", "i", "p", "l", "e", " ", "p", "d", "f", " ", "l", "i", "n", "k", "s", " ", "f", "o", "u", "n", "d", " ", "f", "o", "r", " ", "e", "n", "t", "r", "y", ":", " ">> \o self.id>>
                      ELSE <<>>]

\* ArxivResult::from_entry
from_entry(e) ==
    [id |-> e.id,
     title |-> e.title,
     summary |-> e.summary,
     authors |-> [i \in 1..Len(e.authors) |-> e.authors[i].name],
     doi |-> e.doi,
     comment |-> e.comment,
     journal_ref |-> e.journal_ref,
     primary_category |-> e.primary_category.term,
     categories |-> [i \in 1..Len(e.categories) |-> e.categories[i].term],
     pdf_url |-> get_pdf_url(e).ret,
     links |-> e.links,
     published |-> e.published,
     updated |-> e.updated]

----------------------------------------------------------------------------
(* The predicate algebra as a state machine: an expression is built from    *)
(* operands by the constructors and rendered by both renderings.            *)

T1 == SearchTerm("Title", <<"R", "A", "G">>)
T2 == SearchTerm("Author", <<"J", "o", "h", "n", " ", "D", "o", "e">>)
T3 == SearchTerm("All", <<"(", "x", ")">>)
R1 == SearchRange("LastUpdatedDate", 0, 1000)

Operands == {T1, T3, R1, and(T1, T2)}

PredInit ==
    /\ pred \in Operands
    /\ lastOp = [op |-> "new", args |-> <<>>, depth |-> 0]
    /\ query_string = None
    /\ display = None

PredIdle ==
    /\ pred = None
    /\ lastOp = None
    /\ query_string = None
    /\ display = None

Built(op, args, p) ==
    /\ lastOp.depth < MaxDepth
    /\ pred' = p
    /\ lastOp' = [op |-> op, args |-> args, depth |-> lastOp.depth + 1]
    /\ query_string' = None
    /\ display' = None
    /\ UNCHANGED <<queryVars, entryVars, fetchVars>>

And ==
    \E q \in Operands : \E args \in {<<pred, q>>, <<q, pred>>} :
        Built("and", args, and(args[1], args[2]))

AndAll ==
    \E q \in Operands : \E args \in {<<>>, <<pred>>, <<pred, q, pred>>} :
        Built("and_all", args, and_all(args))

Or ==
    \E q \in Operands : \E args \in {<<pred, q>>, <<q, pred>>} :
        Built("or", args, or(args[1], args[2]))

OrAll ==
    \E q \in Operands : \E args \in {<<>>, <<pred>>, <<q, pred, q>>} :
        Built("or_all", args, or_all(args))

AndNot ==
    \E q \in Operands : \E args \in {<<pred, q>>, <<q, pred>>} :
        Built("and_not", args, and_not(args[1], args[2]))

Bracket == Built("bracket", <<pred>>, bracket(pred))

\* to_query_string() and to_string() of the expression
Render ==
    /\ query_string = None
    /\ query_string' = Some(to_query_string(pred))
    /\ display' = Some(to_string(pred))
    /\ UNCHANGED <<pred, lastOp, queryVars, entryVars, fetchVars>>

----------------------------------------------------------------------------
(* The query descriptor as a state machine: builder steps from the default  *)
(* descriptor, and query_map of the descriptor reached.                     *)

Queries == {Str(<<"a", "l", "l", ":", "R", "A", "G">>), and(T1, T2), T1}
Id1 == <<"2", "4", "0", "2", ".", "1", "6", "8", "9", "3", "v", "1">>
Id2 == <<"1">>
IdLists == {<<>>, <<Id1>>, <<Id1, Id2>>}
Values == {0, 1, 9, 10, MaxValue}
SortBys == {"Relevance", "LastUpdatedDate", "SubmittedDate"}

QueryInit ==
    /\ query = ArxivQuery_default
    /\ lastStep = [op |-> "default", base |-> ArxivQuery_default, k |-> 0,
                   n |-> 0, wasSet |-> FALSE]
    /\ params = None

QueryIdle ==
    /\ query = None
    /\ lastStep = None
    /\ params = None

\* the methods of impl<S> ArxivQuery<S> that take and return the descriptor
ArxivQuery_methods ==
    {"with_search_query", "with_id_list", "with_start", "with_max_results",
     "with_sort_by", "next_page_query"}

Stepped(op, q) ==
    /\ op \in ArxivQuery_methods
    /\ lastStep.n < MaxSteps
    /\ query' = q
    /\ lastStep' = [op |-> op,
                    base |-> IF op = "next_page_query" /\ lastStep.op = op
                             THEN lastStep.base ELSE query,
                    k |-> IF op = "next_page_query" /\ lastStep.op = op
                          THEN lastStep.k + 1 ELSE 1,
                    n |-> lastStep.n + 1,
                    wasSet |-> lastStep.wasSet \/ op = "with_search_query"]
    /\ params' = None
    /\ UNCHANGED <<predVars, entryVars, fetchVars>>

WithSearchQuery == \E s \in Queries : Stepped("with_search_query", with_search_query(query, s))

WithIdList == \E l \in IdLists : Stepped("with_id_list", with_id_list(query, l))

WithStart == \E v \in Values : Stepped("with_start", with_start(query, v))

WithMaxResults == \E v \in Values : Stepped("with_max_results", with_max_results(query, v))

WithSortBy == \E b \in SortBys : Stepped("with_sort_by", with_sort_by(query, b))

\* usize addition, which the model does not take beyond MaxStart
NextPageQuery ==
    /\ query.start + query.max_results <= MaxStart
    /\ Stepped("next_page_query", next_page_query(query))

QueryMap ==
    /\ params = None
    /\ params' = Some(query_map(query))
    /\ UNCHANGED <<query, lastStep, predVars, entryVars, fetchVars>>

----------------------------------------------------------------------------
(* The mapper as a state machine: a decoded entry is mapped to a record.    *)

Href1 == <<"u", "/", "1">>
Href2 == <<"u", "/", "2">>
Titles == {None, Some(PDF), Some(<<"d", "o", "i">>)}
Links == [title : Titles, rel : {<<"r", "e", "l", "a", "t", "e", "d">>}, href : {Href1, Href2},
          content_type : {None}]
LinkLists == UNION {[1..n -> Links] : n \in 0..MaxLinks}

Entry(id, links) ==
    [id |-> id, title |-> <<"T">>, summary |-> <<"S">>, updated |-> 1000,
     published |-> 0, authors |-> <<[name |-> <<"A">>], [name |-> <<"B">>]>>,
     links |-> links,
     primary_category |-> [term |-> <<"c", "s", ".", "C", "L">>, scheme |-> <<"s">>],
     categories |-> <<[term |-> <<"c", "s", ".", "C", "L">>, scheme |-> <<"s">>]>>,
     doi |-> None, comment |-> None, journal_ref |-> None]

EntryId1 == <<"a", "b", "s", "/", "1">>
EntryId2 == <<"a", "b", "s", "/", "2">>

EntryInit ==
    /\ entry \in {Entry(EntryId1, l) : l \in LinkLists}
    /\ record = None
    /\ stderr = <<>>

EntryIdle ==
    /\ entry = None
    /\ record = None
    /\ stderr = <<>>

FromEntry ==
    /\ record = None
    /\ record' = Some(from_entry(entry))
    /\ stderr' = stderr \o get_pdf_url(entry).eprintln
    /\ UNCHANGED <<entry, predVars, queryVars, fetchVars>>

----------------------------------------------------------------------------
(* lib.rs *)

Ok(v) == [ok |-> TRUE, v |-> v]
Err(e) == [ok |-> FALSE, e |-> e]

\* what the transport, the body read and the decoder can answer
TransportErrors == {[msg |-> <<"d", "n", "s">>], [msg |-> <<"t", "i", "m", "e", "o", "u", "t">>]}
ReadErrors == {[msg |-> <<"b", "o", "d", "y">>]}
DecodeError == [msg |-> <<"x", "m", "l">>]

EA == Entry(EntryId1, <<[title |-> Some(PDF), rel |-> <<"r">>, href |-> Href1, content_type |-> None],
                        [title |-> Some(PDF), rel |-> <<"r">>, href |-> Href2, content_type |-> None]>>)
EB == Entry(EntryId2, <<>>)
Bodies == {[wellformed |-> FALSE, entries_ |-> <<>>]}
          \cup {[wellformed |-> TRUE, entries_ |-> es] : es \in {<<>>, <<EA, EB>>, <<EB, EA>>}}

\* quick_xml::de::from_str::<models::Feed>(&text)
from_str(body) ==
    IF body.wellformed THEN Ok([entries_ |-> body.entries_]) ELSE Err(DecodeError)

\* the records collected in reverse
collect_reversed(feed) ==
    [i \in 1..Len(feed.entries_) |->
        from_entry(feed.entries_[Len(feed.entries_) + 1 - i])]

\* the mapping stopping one entry short
collect_short(feed) ==
    [i \in 1..(Len(feed.entries_) - 1) |-> from_entry(feed.entries_[i])]

\* feed.entries_.into_iter().map(ArxivResult::from_entry).collect()
collect(feed) == [i \in 1..Len(feed.entries_) |-> from_entry(feed.entries_[i])]

RECURSIVE warnings(_)
\* the lines from_entry writes to stderr while the entries are mapped
warnings(es) ==
    IF Len(es) = 0 THEN <<>>
    ELSE get_pdf_url(es[1]).eprintln \o warnings(Tail(es))

\* the loop bound written as 0..=self.n_retries
RetryRange_inclusive(n) == 0..n

\* for _ in 0..self.n_retries
RetryRange(n) == 0..(n - 1)

\* a sleep that returns at once
deadline_elapsed(t, duration) == t

\* tokio::time::sleep(self.interval): the instant before which it does not return
deadline(t, duration) == t + duration

\* the error built from the last transport error only
exhausted_last(n, errs) ==
    [msg |-> <<"F", "a", "i", "l", "e", "d", " ", "t", "o", " ", "f", "e", "t", "c", "h", " ", "d", "a", "t", "a", " ", "f", "r", "o", "m", " ", "A", "r", "x", "i", "v", " ", "a", "f", "t", "e", "r", " ">> \o usize_to_string(n) \o <<" ", "r", "e", "t", "r", "i", "e", "s", "\n">>
             \o (IF Len(errs) = 0 THEN <<>> ELSE errs[Len(errs)].msg)]

\* the error built after the loop
exhausted(n, errs) ==
    [msg |-> <<"F", "a", "i", "l", "e", "d", " ", "t", "o", " ", "f", "e", "t", "c", "h", " ", "d", "a", "t", "a", " ", "f", "r", "o", "m", " ", "A", "r", "x", "i", "v", " ", "a", "f", "t", "e", "r", " ">> \o usize_to_string(n) \o <<" ", "r", "e", "t", "r", "i", "e", "s", "\n">>
             \o join([i \in 1..Len(errs) |-> errs[i].msg], <<"\n">>)]

FetchInit ==
    /\ interval \in 1..MaxInterval
    /\ n_retries \in 0..MaxRetries
    /\ pc = "idle"
    /\ attempt = 0
    /\ errors = <<>>
    /\ text = None
    /\ outcome = None
    /\ sleeps = 0
    /\ wake = 0
    /\ now = 0
    /\ attempts = <<>>
    /\ calls = 0

FetchIdle ==
    /\ interval = 0
    /\ n_retries = 0
    /\ pc = "idle"
    /\ attempt = 0
    /\ errors = <<>>
    /\ text = None
    /\ outcome = None
    /\ sleeps = 0
    /\ wake = 0
    /\ now = 0
    /\ attempts = <<>>
    /\ calls = 0

\* client.search(query) is called: let mut errors = vec![]
Search ==
    /\ pc \in {"idle", "done"}
    /\ calls < MaxCalls
    /\ calls' = calls + 1
    /\ errors' = <<>>
    /\ attempt' = 0
    /\ text' = None
    /\ outcome' = None
    /\ sleeps' = 0
    /\ pc' = "loop"
    \* of the requests of earlier calls only the last one is remembered
    /\ attempts' = IF Len(attempts) = 0 THEN <<>> ELSE <<attempts[Len(attempts)]>>
    /\ UNCHANGED <<interval, n_retries, wake, now, stderr, entry, record,
                   predVars, queryVars>>

\* the loop takes its next value and the GET is sent
Send ==
    /\ pc = "loop"
    /\ attempt \in RetryRange(n_retries)
    /\ attempts' = Append(attempts, [at |-> now, call |-> calls, res |-> None])
    /\ pc' = "send"
    /\ UNCHANGED <<interval, n_retries, attempt, errors, text, outcome, sleeps, wake,
                   now, calls, entryVars, predVars, queryVars>>

\* send().await is Err(e): errors.push(e), then the sleep starts
SendErr ==
    /\ pc = "send"
    /\ \E e \in TransportErrors :
        /\ attempts' = [attempts EXCEPT ![Len(attempts)].res = Some(Err(e))]
        /\ errors' = Append(errors, e)
    /\ sleeps' = sleeps + 1
    /\ wake' = deadline(now, interval)
    /\ pc' = "sleep"
    /\ UNCHANGED <<interval, n_retries, attempt, text, outcome, now, calls,
                   entryVars, predVars, queryVars>>

\* the sleep returns: continue
Wake ==
    /\ pc = "sleep"
    /\ now >= wake
    /\ attempt' = attempt + 1
    /\ pc' = "loop"
    /\ UNCHANGED <<interval, n_retries, errors, text, outcome, sleeps, wake, now,
                   attempts, calls, entryVars, predVars, queryVars>>

\* send().await is Ok(response)
SendOk ==
    /\ pc = "send"
    /\ attempts' = [attempts EXCEPT ![Len(attempts)].res = Some(Ok(<<>>))]
    /\ pc' = "text"
    /\ UNCHANGED <<interval, n_retries, attempt, errors, text, outcome, sleeps, wake,
                   now, calls, entryVars, predVars, queryVars>>

\* a body read failure handled like a transport failure
TextErr_retried ==
    /\ pc = "text"
    /\ \E e \in ReadErrors :
        /\ text' = Some(Err(e))
        /\ errors' = Append(errors, e)
    /\ sleeps' = sleeps + 1
    /\ wake' = deadline(now, interval)
    /\ pc' = "sleep"
    /\ UNCHANGED <<interval, n_retries, attempt, outcome, now, attempts, calls,
                   entryVars, predVars, queryVars>>

\* response.text().await? is Err(e)
TextErr ==
    /\ pc = "text"
    /\ \E e \in ReadErrors :
        /\ text' = Some(Err(e))
        /\ outcome' = Some(Err(e))
    /\ pc' = "done"
    /\ UNCHANGED <<interval, n_retries, attempt, errors, sleeps, wake, now, attempts,
                   calls, entryVars, predVars, queryVars>>

\* response.text().await? is Ok(text); the text is decoded and mapped
TextOk ==
    /\ pc = "text"
    /\ \E body \in Bodies :
        /\ text' = Some(Ok(body))
        /\ IF from_str(body).ok
           THEN /\ outcome' = Some(Ok(collect(from_str(body).v)))
                /\ stderr' = stderr \o warnings(from_str(body).v.entries_)
           ELSE /\ outcome' = Some(Err(from_str(body).e))
                /\ stderr' = stderr
    /\ pc' = "done"
    /\ UNCHANGED <<interval, n_retries, attempt, errors, sleeps, wake, now, attempts,
                   calls, entry, record, predVars, queryVars>>

\* the loop is over: Err(anyhow!(...))
Exhausted ==
    /\ pc = "loop"
    /\ attempt \notin RetryRange(n_retries)
    /\ outcome' = Some(Err(exhausted(n_retries, errors)))
    /\ pc' = "done"
    /\ UNCHANGED <<interval, n_retries, attempt, errors, text, sleeps, wake, now,
                   attempts, calls, entryVars, predVars, queryVars>>

\* time passes while the call is suspended on the request or in the sleep,
\* and between calls
Tick ==
    /\ pc \in {"send", "sleep", "done"}
    /\ now < MaxTime
    /\ now' = now + 1
    /\ UNCHANGED <<interval, n_retries, pc, attempt, errors, text, outcome, sleeps,
                   wake, attempts, calls, entryVars, predVars, queryVars>>

----------------------------------------------------------------------------
(* Specifications *)

Init == PredIdle /\ QueryIdle /\ EntryIdle /\ FetchInit
Next == Search \/ Send \/ SendErr \/ Wake \/ SendOk \/ TextErr \/ TextOk
            \/ Exhausted \/ Tick
Spec == Init /\ [][Next]_vars

InitPredicate == PredInit /\ QueryIdle /\ EntryIdle /\ FetchIdle
NextPredicate == And \/ AndAll \/ Or \/ OrAll \/ AndNot \/ Bracket \/ Render
SpecPredicate == InitPredicate /\ [][NextPredicate]_vars

InitQuery == PredIdle /\ QueryInit /\ EntryIdle /\ FetchIdle
NextQuery == WithSearchQuery \/ WithIdList \/ WithStart \/ WithMaxResults
                \/ WithSortBy \/ NextPageQuery \/ QueryMap
SpecQuery == InitQuery /\ [][NextQuery]_vars

InitEntry == PredIdle /\ QueryIdle /\ EntryInit /\ FetchIdle
NextEntry == FromEntry
SpecEntry == InitEntry /\ [][NextEntry]_vars

----------------------------------------------------------------------------
(* Properties of ArxivClient::search *)

\* the positions of the links titled "pdf"
IsPdf(link) == link.title.some /\ link.title.v = PDF
PdfAt(links) == {i \in 1..Len(links) : IsPdf(links[i])}

\* the GET requests of the search call in progress (or last finished)
Current == SelectSeq(attempts, LAMBDA a : a.call = calls)
Failed(a) == a.res.some /\ ~a.res.v.ok
Responded(a) == a.res.some /\ a.res.v.ok
AllFailed == \A k \in 1..Len(Current) : Failed(Current[k])

\* C1: a search sends at most n_retries GET requests, and exactly n_retries
\* when every attempt ends in a transport failure.
C1_AttemptBudget ==
    /\ Len(Current) <= n_retries
    /\ (pc = "done" /\ AllFailed) => Len(Current) = n_retries

C1_Witness ==
    pc = "done" /\ n_retries = MaxRetries /\ AllFailed /\ Len(Current) = MaxRetries

\* C2: when attempts 1..k-1 fail at transport level and attempt k gets a
\* response whose body reads and decodes, the search returns the records of
\* that response, k requests were made, and none follows the response.
C2_FirstSuccessReturns ==
    \A k \in 1..Len(Current) :
        Responded(Current[k]) =>
            /\ \A j \in 1..(k - 1) : Failed(Current[j])
            /\ k <= n_retries
            /\ Len(Current) = k
            /\ Len(errors) = k - 1
            /\ (pc = "done" /\ text.v.ok /\ text.v.v.wellformed) =>
                    /\ outcome.v.ok
                    /\ Len(outcome.v.v) = Len(text.v.v.entries_)
                    /\ \A i \in 1..Len(outcome.v.v) :
                            outcome.v.v[i].id = text.v.v.entries_[i].id

C2_Witness ==
    /\ pc = "done"
    /\ Len(Current) = 3
    /\ Responded(Current[3])
    /\ outcome.v.ok
    /\ Len(outcome.v.v) = 2

RECURSIVE Interleave(_, _)
\* the strings one after the other, sep between two of them
Interleave(strs, sep) ==
    IF Len(strs) = 0 THEN <<>>
    ELSE IF Len(strs) = 1 THEN strs[1]
    ELSE Interleave(SubSeq(strs, 1, Len(strs) - 1), sep) \o sep \o strs[Len(strs)]

Lines(msgs) == Interleave(msgs, <<"\n">>)

\* C3: when all n_retries attempts end in a transport failure the search
\* returns an error whose message states n_retries and then holds the
\* message of every attempt's transport error, in attempt order, one per
\* line.
C3_AggregatedError ==
    (pc = "done" /\ AllFailed) =>
        /\ ~outcome.v.ok
        /\ outcome.v.e.msg =
              <<"F", "a", "i", "l", "e", "d", " ", "t", "o", " ", "f", "e", "t", "c", "h", " ", "d", "a", "t", "a", " ", "f", "r", "o", "m", " ", "A", "r", "x", "i", "v", " ", "a", "f", "t", "e", "r", " ">> \o usize_to_string(n_retries) \o <<" ", "r", "e", "t", "r", "i", "e", "s", "\n">>
              \o Lines([k \in 1..Len(Current) |-> Current[k].res.v.e.msg])

C3_Witness ==
    /\ pc = "done"
    /\ AllFailed
    /\ Len(Current) = 3
    /\ Current[1].res.v.e # Current[2].res.v.e
    /\ ~outcome.v.ok

\* C4: a body read failure or a decode failure ends the search at once with
\* that error: the failed response is the last request, and no sleep follows
\* it, whatever is left of the budget.
C4_ReadDecodeFatal ==
    (pc = "done" /\ text.some) =>
        /\ ~text.v.ok => outcome = Some(Err(text.v.e))
        /\ (text.v.ok /\ ~text.v.v.wellformed) => outcome = Some(Err(DecodeError))
        /\ (~text.v.ok \/ ~text.v.v.wellformed) =>
              /\ Responded(Current[Len(Current)])
              /\ sleeps = Len(Current) - 1
              /\ Len(errors) = Len(Current) - 1

C4_Witness ==
    /\ pc = "done"
    /\ text.some
    /\ text.v.ok
    /\ ~text.v.v.wellformed
    /\ Len(Current) = 2
    /\ n_retries = 3

\* C5 as the spec states it: any two consecutive GET requests of a client,
\* in one search call or across calls, are at least the interval apart.
C5_AllRequestsSpaced ==
    \A k \in 2..Len(attempts) : attempts[k].at - attempts[k - 1].at >= interval

\* C5: two consecutive GET requests of one search call are at least the
\* interval apart; the first request of a call is sent without waiting.
C5_RetriesSpaced ==
    \A k \in 2..Len(attempts) :
        attempts[k].call = attempts[k - 1].call =>
            attempts[k].at - attempts[k - 1].at >= interval

C5_Witness ==
    /\ interval > 1
    /\ calls = 2
    /\ Len(attempts) = 3
    /\ attempts[1].call = 1
    /\ attempts[2].at = attempts[1].at
    /\ attempts[3].call = 2
    /\ attempts[3].at - attempts[2].at = interval

\* C12: the outcome of a search is either an error, which carries no
\* record, or the list with one record per entry of the decoded feed, in
\* the order of the feed; never part of the entries, never records and an
\* error together.
C12_AtomicOrdered ==
    outcome.some =>
        IF outcome.v.ok
        THEN /\ DOMAIN outcome.v = {"ok", "v"}
             /\ text.some /\ text.v.ok /\ text.v.v.wellformed
             /\ LET es == text.v.v.entries_
                     rs == outcome.v.v
                 IN  /\ Len(rs) = Len(es)
                     /\ \A i \in 1..Len(es) :
                            /\ rs[i].id = es[i].id
                            /\ rs[i].links = es[i].links
                            /\ rs[i].pdf_url.some <=> (PdfAt(es[i].links) # {})
        ELSE /\ DOMAIN outcome.v = {"ok", "e"}
             /\ text.some => (~text.v.ok \/ ~text.v.v.wellformed)

C12_Witness ==
    /\ outcome.some
    /\ outcome.v.ok
    /\ Len(outcome.v.v) = 2
    /\ outcome.v.v[1].id = EntryId2
    /\ outcome.v.v[2].id = EntryId1
    /\ text.v.v.entries_[1].id = EntryId2

----------------------------------------------------------------------------
(* Properties of the predicate algebra *)

\* C6: and(P,Q), or(P,Q) and and_not(P,Q) render as "(" P " AND " Q ")",
\* "(" P " OR " Q ")" and "(" P " ANDNOT " Q ")", and bracket(P) as "(" P ")",
\* whatever P and Q are and however they render.
C6_CompositeRendering ==
    query_string.some =>
        LET P == to_query_string(lastOp.args[1])
            Q == to_query_string(lastOp.args[2])
        IN  /\ lastOp.op = "and" =>
                  query_string.v = <<"(">> \o P \o <<" ", "A", "N", "D", " ">> \o Q \o <<")">>
            /\ lastOp.op = "or" =>
                  query_string.v = <<"(">> \o P \o <<" ", "O", "R", " ">> \o Q \o <<")">>
            /\ lastOp.op = "and_not" =>
                  query_string.v = <<"(">> \o P \o <<" ", "A", "N", "D", "N", "O", "T", " ">> \o Q \o <<")">>
            /\ lastOp.op = "bracket" =>
                  query_string.v = <<"(">> \o P \o <<")">>

C6_Witness ==
    /\ query_string.some
    /\ lastOp.op = "and"
    /\ lastOp.args[1].tag = "Bracket"
    /\ lastOp.args[1].inner.tag = "And"
    /\ SubSeq(query_string.v, 1, 3) = <<"(", "(", "(">>

\* C7: the display of a predicate is its rendering without the outermost
\* pair of parentheses, and nothing else removed; the display of a term or a
\* range is its rendering.
C7_DisplayStripsOutermost ==
    display.some =>
        IF pred.tag \in {"Term", "Range"}
        THEN display.v = query_string.v
        ELSE <<"(">> \o display.v \o <<")">> = query_string.v

C7_Witness ==
    /\ display.some
    /\ pred.tag = "Bracket"
    /\ pred.inner.tag = "Bracket"
    /\ display.v[1] = "("
    /\ display.v[Len(display.v)] = ")"

----------------------------------------------------------------------------
(* Properties of the query descriptor *)

Digits == {Digit(d) : d \in 0..9}
DigitValue(c) == CHOOSE d \in 0..9 : Digit(d) = c

\* a decimal numeral: digits only, no leading zero but for "0" itself
IsDecimal(s) ==
    /\ Len(s) >= 1
    /\ \A i \in 1..Len(s) : s[i] \in Digits
    /\ Len(s) > 1 => s[1] # "0"

RECURSIVE DecimalValue(_)
DecimalValue(s) ==
    IF Len(s) = 0 THEN 0
    ELSE 10 * DecimalValue(SubSeq(s, 1, Len(s) - 1)) + DigitValue(s[Len(s)])

\* C8: the parameter map of every descriptor built from the default holds
\* start and max_results as decimal numerals, search_query exactly when a
\* search query was set, and id_list exactly when the id list is not empty,
\* as the ids separated by commas; the default's map is start "0",
\* max_results "10" and nothing else.
C8_ParameterMap ==
    params.some =>
        LET m == params.v
        IN  /\ {"start", "max_results"} \subseteq DOMAIN m
            /\ IsDecimal(m["start"])
            /\ DecimalValue(m["start"]) = query.start
            /\ IsDecimal(m["max_results"])
            /\ DecimalValue(m["max_results"]) = query.max_results
            /\ ("search_query" \in DOMAIN m) <=> lastStep.wasSet
            /\ ("id_list" \in DOMAIN m) <=> (Len(query.id_list) > 0)
            /\ Len(query.id_list) > 0 =>
                  m["id_list"] = Interleave(query.id_list, <<",">>)
            /\ lastStep.n = 0 =>
                  /\ DOMAIN m = {"start", "max_results"}
                  /\ m["start"] = <<"0">>
                  /\ m["max_results"] = <<"1", "0">>

C8_Witness ==
    /\ params.some
    /\ lastStep.wasSet
    /\ Len(query.id_list) = 2
    /\ query.start = MaxValue
    /\ DOMAIN params.v = {"search_query", "id_list", "start", "max_results"}

\* C9: next_page_query applied k times to a descriptor with start s and
\* max_results m gives the same descriptor with start s + k*m.
C9_NextPage ==
    lastStep.op = "next_page_query" =>
        query = [lastStep.base EXCEPT
                    !.start = lastStep.base.start + lastStep.k * lastStep.base.max_results]

C9_Witness ==
    /\ lastStep.op = "next_page_query"
    /\ lastStep.k = 2
    /\ lastStep.base.start = 9
    /\ query.start = 29

\* C11: with_search_query, with_id_list, with_start, with_max_results,
\* with_sort_by and with_sort_order are the builder operations of the
\* descriptor, and the parameter map holds sortBy / sortOrder exactly when
\* the option is set, as relevance, lastUpdatedDate, submittedDate /
\* ascending, descending.
C11_SixBuilders ==
    /\ {"with_search_query", "with_id_list", "with_start", "with_max_results",
        "with_sort_by", "with_sort_order"} \subseteq ArxivQuery_methods
    /\ params.some =>
          LET m == params.v
          IN  /\ ("sortBy" \in DOMAIN m) <=> query.sort_by.some
              /\ ("sortOrder" \in DOMAIN m) <=> query.sort_order.some
              /\ query.sort_by.some =>
                    m["sortBy"] =
                        CASE query.sort_by.v = "Relevance" ->
                                <<"r", "e", "l", "e", "v", "a", "n", "c", "e">>
                          [] query.sort_by.v = "LastUpdatedDate" ->
                                <<"l", "a", "s", "t", "U", "p", "d", "a", "t", "e", "d", "D", "a", "t", "e">>
                          [] query.sort_by.v = "SubmittedDate" ->
                                <<"s", "u", "b", "m", "i", "t", "t", "e", "d", "D", "a", "t", "e">>
              /\ query.sort_order.some =>
                    m["sortOrder"] =
                        CASE query.sort_order.v = "Ascending" ->
                                <<"a", "s", "c", "e", "n", "d", "i", "n", "g">>
                          [] query.sort_order.v = "Descending" ->
                                <<"d", "e", "s", "c", "e", "n", "d", "i", "n", "g">>

----------------------------------------------------------------------------
(* Properties of the mapper *)

\* C10: the record's PDF URL is the href of the first link titled "pdf" and
\* is absent when there is none; a warning is written exactly when two or
\* more links are titled "pdf", and the record is the same with it.
C10_PdfUrl ==
    record.some =>
        LET P == PdfAt(entry.links)
        IN  /\ P = {} => record.v.pdf_url = None
            /\ P # {} =>
                  \E i \in P :
                      /\ \A j \in P : i <= j
                      /\ record.v.pdf_url = Some(entry.links[i].href)
            /\ (Len(stderr) >= 1) <=> (Cardinality(P) >= 2)
            /\ Len(stderr) <= 1
            /\ record.v.links = entry.links
            /\ record.v.id = entry.id

C10_Witness ==
    /\ record.some
    /\ Len(entry.links) = 3
    /\ PdfAt(entry.links) = {2, 3}
    /\ entry.links[2].href = Href2
    /\ entry.links[3].href = Href1
    /\ record.v.pdf_url = Some(Href2)
    /\ Len(stderr) = 1

====
